---- MODULE Spec2Model ----
(***************************************************************************)
(* A model of de-switcher (src/src/main.rs): the desktop-profile resolver, *)
(* the available-profiles query with its static fallback, the two-step     *)
(* selection / path-entry flow of run_app, the path validation and the     *)
(* script generator.                                                       *)
(*                                                                         *)
(* Text is modelled as a sequence of strings.  Where the code works on     *)
(* single characters or bytes (profile names, the raw desktop identifier,  *)
(* the edit buffer) every element is one byte; the fixed pieces of the     *)
(* script template are kept as whole strings, one sequence per line.       *)
(***************************************************************************)
EXTENDS Integers, Sequences, FiniteSets, TLC

VARIABLES
    pc,                         \* where main() is: Start, Running, Done, Cancelled, Exited, Error, InitFailed, Panicked
    env,                        \* XDG_CURRENT_DESKTOP as read by App::new (consumed at startup)
    query,                      \* outcome of `eos-packagelist --list` (consumed at startup)
    fs,                         \* the filesystem Path::is_dir / Path::exists look at
    current_de_raw,
    current_de_profile,
    available_des,
    selected_de_index,          \* 0-based, as in the code
    selected_pkg_manager_index, \* 0-based, as in the code
    should_quit,
    current_step,
    input_buffer,               \* bytes of the String
    input_cursor_position,      \* a byte offset
    input_error,                \* <<>> is None, <<msg>> is Some(msg)
    keys,                       \* text-editing key events handled in this visit of InputPath
    written                     \* <<>>, or <<[path, text]>> once main() calls fs::write

vars == <<pc, env, query, fs, current_de_raw, current_de_profile, available_des,
          selected_de_index, selected_pkg_manager_index, should_quit, current_step,
          input_buffer, input_cursor_position, input_error, keys, written>>

app == <<current_de_raw, current_de_profile, available_des, selected_de_index,
         selected_pkg_manager_index, should_quit, current_step, input_buffer,
         input_cursor_position, input_error>>

(***************************************************************************)
(* Bounds                                                                  *)
(***************************************************************************)
\* text-editing key events explored per visit of the path-entry step
MaxKeys == 2

(***************************************************************************)
(* Strings                                                                 *)
(***************************************************************************)
LowerLetters == <<"a","b","c","d","e","f","g","h","i","j","k","l","m",
                  "n","o","p","q","r","s","t","u","v","w","x","y","z">>

UpperLetters == <<"A","B","C","D","E","F","G","H","I","J","K","L","M",
                  "N","O","P","Q","R","S","T","U","V","W","X","Y","Z">>

\* char::to_uppercase on the characters the model uses
UpperChar(c) ==
    IF \E i \in 1..Len(LowerLetters) : LowerLetters[i] = c
    THEN UpperLetters[CHOOSE i \in 1..Len(LowerLetters) : LowerLetters[i] = c]
    ELSE c

to_uppercase(s) == [i \in 1..Len(s) |-> UpperChar(s[i])]

starts_with(s, p) == Len(p) <= Len(s) /\ SubSeq(s, 1, Len(p)) = p

ends_with(s, p) == Len(p) <= Len(s) /\ SubSeq(s, Len(s) - Len(p) + 1, Len(s)) = p

contains(s, p) == \E i \in 1..(Len(s) - Len(p) + 1) : SubSeq(s, i, i + Len(p) - 1) = p

Drop(s, n) == SubSeq(s, n + 1, Len(s))

\* str::replace(pat, ""): every non-overlapping occurrence, left to right
RECURSIVE remove_all(_, _)
remove_all(s, pat) ==
    IF Len(s) < Len(pat) \/ Len(pat) = 0 THEN s
    ELSE IF starts_with(s, pat) THEN remove_all(Drop(s, Len(pat)), pat)
    ELSE <<Head(s)>> \o remove_all(Tail(s), pat)

\* str::trim for the blank the model uses
RECURSIVE trim_start(_)
trim_start(s) == IF s # <<>> /\ Head(s) = " " THEN trim_start(Tail(s)) ELSE s

RECURSIVE trim_end(_)
trim_end(s) ==
    IF s # <<>> /\ s[Len(s)] = " " THEN trim_end(SubSeq(s, 1, Len(s) - 1)) ELSE s

trim(s) == trim_end(trim_start(s))

\* str::split(sep).last(): what follows the last separator (the whole string when there is none)
RECURSIVE split_last(_, _)
split_last(s, sep) ==
    IF \E i \in 1..Len(s) : s[i] = sep THEN split_last(Tail(s), sep) ELSE s

Min(S) == CHOOSE x \in S : \A y \in S : x <= y

(***************************************************************************)
(* ProfileCatalog                                                          *)
(***************************************************************************)
S_Desktop == <<"-","D","e","s","k","t","o","p">>

S_Window_Manager == <<"-","W","i","n","d","o","w","-","M","a","n","a","g","e","r">>

KDE_Desktop == <<"K","D","E">> \o S_Desktop

GNOME_Desktop == <<"G","N","O","M","E">> \o S_Desktop

XFCE4_Desktop == <<"X","F","C","E","4">> \o S_Desktop

Cinnamon_Desktop == <<"C","i","n","n","a","m","o","n">> \o S_Desktop

MATE_Desktop == <<"M","A","T","E">> \o S_Desktop

Budgie_Desktop == <<"B","u","d","g","i","e">> \o S_Desktop

LXQT_Desktop == <<"L","X","Q","T">> \o S_Desktop

LXDE_Desktop == <<"L","X","D","E">> \o S_Desktop

i3_Window_Manager == <<"i","3">> \o S_Window_Manager

COSMIC_Desktop == <<"C","O","S","M","I","C">> \o S_Desktop

Unknown_Desktop == <<"U","n","k","n","o","w","n">> \o S_Desktop

DE_DM_MAP ==
    << <<KDE_Desktop, "sddm">>,
       <<GNOME_Desktop, "gdm">>,
       <<XFCE4_Desktop, "lightdm">>,
       <<Cinnamon_Desktop, "lightdm">>,
       <<MATE_Desktop, "lightdm">>,
       <<Budgie_Desktop, "lightdm">>,
       <<LXQT_Desktop, "sddm">>,
       <<LXDE_Desktop, "lightdm">>,
       <<i3_Window_Manager, "lightdm">> >>

SPECIAL_INSTALL_MAP == { <<COSMIC_Desktop, "cosmic">>, <<i3_Window_Manager, "i3-gaps">> }

PKG_MANAGER_LIST == <<"pacman", "yay", "paru">>

\* DE_DM_MAP.iter().map(|(d, _)| d.to_string()).collect()
CatalogProfiles == [i \in 1..Len(DE_DM_MAP) |-> DE_DM_MAP[i][1]]

(***************************************************************************)
(* ProfileResolver                                                         *)
(***************************************************************************)
map_raw_de_to_profile(raw_de) ==
    LET up   == to_uppercase(raw_de)
        hits == {i \in 1..Len(DE_DM_MAP) : starts_with(DE_DM_MAP[i][1], up)}
    IN  IF up = <<"C","O","S","M","I","C">> THEN COSMIC_Desktop
        ELSE IF up = <<"I","3">> THEN i3_Window_Manager
        ELSE IF hits = {} THEN Unknown_Desktop
        ELSE DE_DM_MAP[Min(hits)][1]

generate_initial_filename(from_profile, to_profile) ==
    LET from == remove_all(remove_all(from_profile, S_Desktop), S_Window_Manager)
        to   == remove_all(remove_all(to_profile, S_Desktop), S_Window_Manager)
    IN  IF from = Unknown_Desktop
        THEN <<"d","e","_","s","w","i","t","c","h","e","r","_","f","r","o","m","_",
               "U","n","k","n","o","w","n","_","t","o","_">> \o to \o <<".","s","h">>
        ELSE <<"d","e","_","s","w","i","t","c","h","e","r","_">>
             \o remove_all(from, S_Desktop) \o <<"_","t","o","_">> \o to \o <<".","s","h">>

\* the mutant derives the first path from the last profile of the list
initial_path_last(profile, available) ==
    <<".","/">> \o generate_initial_filename(profile, available[Len(available)])

\* initial_path in App::new: format!("./{}", ..generate_initial_filename(.., &available_des[0]))
initial_path(profile, available) ==
    <<".","/">> \o generate_initial_filename(profile, available[1])

(***************************************************************************)
(* Available-profiles query                                                *)
(***************************************************************************)
\* the closure of the filter in get_available_des, on one line of stdout
KeepLine(line) ==
    LET l == trim(line)
    IN  \/ ends_with(l, S_Desktop)
        \/ ends_with(l, S_Window_Manager)
        \/ contains(l, <<"i","3">>)

TrimLines(lines) == [i \in 1..Len(lines) |-> trim(lines[i])]

\* the mutant never looks at the exit status of the tool
get_available_des_ignore_status(q) ==
    LET available == TrimLines(SelectSeq(q.lines, KeepLine))
    IN  IF available = <<>> THEN CatalogProfiles ELSE available

\* the Ok value of get_available_des, given that the tool could be started
get_available_des(q) ==
    IF ~q.exit_ok THEN CatalogProfiles
    ELSE LET available == TrimLines(SelectSeq(q.lines, KeepLine))
         IN  IF available = <<>> THEN CatalogProfiles ELSE available

(***************************************************************************)
(* std::path::Path and the filesystem under it                             *)
(***************************************************************************)
\* the working directory of the process, as a path from the root
Cwd == << <<"w">> >>

RECURSIVE Split(_, _)
Split(s, sep) ==
    IF \E i \in 1..Len(s) : s[i] = sep
    THEN LET i == Min({j \in 1..Len(s) : s[j] = sep})
         IN  <<SubSeq(s, 1, i - 1)>> \o Split(Drop(s, i), sep)
    ELSE <<s>>

CompOf(seg) ==
    [kind |-> IF seg = <<".">> THEN "CurDir"
              ELSE IF seg = <<".", ".">> THEN "ParentDir" ELSE "Normal",
     name |-> seg]

RECURSIVE BodyComponents(_, _)
BodyComponents(segs, i) ==
    IF i > Len(segs) THEN <<>>
    ELSE LET seg  == segs[i]
             skip == seg = <<>> \/ (seg = <<".">> /\ i > 1)
         IN  (IF skip THEN <<>> ELSE <<CompOf(seg)>>) \o BodyComponents(segs, i + 1)

\* Path::components: repeated and trailing separators and every "." but a leading one are dropped
Components(p) ==
    (IF p # <<>> /\ p[1] = "/" THEN <<[kind |-> "RootDir", name |-> <<>>]>> ELSE <<>>)
    \o BodyComponents(Split(p, "/"), 1)

\* Path::file_name, <<>> for None
file_name(p) ==
    LET c == Components(p)
    IN  IF c # <<>> /\ c[Len(c)].kind = "Normal" THEN <<c[Len(c)].name>> ELSE <<>>

\* p.parent().unwrap_or(Path::new("")), as components; <<>> is the empty path
parent(p) ==
    LET c == Components(p)
    IN  IF c = <<>> THEN <<>> ELSE SubSeq(c, 1, Len(c) - 1)

NodeKind(f, node) ==
    IF node \in f.dirs THEN "dir" ELSE IF node \in f.files THEN "file" ELSE "none"

\* path resolution by the kernel: <<node>> when every step is taken from a directory, else <<>>
RECURSIVE Walk(_, _, _, _)
Walk(f, cur, comps, i) ==
    IF i > Len(comps) THEN <<cur>>
    ELSE IF comps[i].kind = "RootDir" THEN Walk(f, <<>>, comps, i + 1)
    ELSE IF NodeKind(f, cur) # "dir" THEN <<>>
    ELSE IF comps[i].kind = "CurDir" THEN Walk(f, cur, comps, i + 1)
    ELSE IF comps[i].kind = "ParentDir"
         THEN Walk(f, IF cur = <<>> THEN <<>> ELSE SubSeq(cur, 1, Len(cur) - 1), comps, i + 1)
    ELSE Walk(f, cur \o <<comps[i].name>>, comps, i + 1)

\* fs::metadata of a path given by its components: "dir", "file" or "none"
Stat(f, comps) ==
    IF comps = <<>> THEN "none"
    ELSE LET r == Walk(f, Cwd, comps, 1)
         IN  IF r = <<>> THEN "none" ELSE NodeKind(f, r[1])

is_dir(f, p) == Stat(f, Components(p)) = "dir"

exists(f, comps) == Stat(f, comps) # "none"

MsgIsDirectory == "Path cannot be a directory. Please provide a filename."

MsgParentMissing == "Directory does not exist."

MsgEmptyFilename == "Filename cannot be empty."

\* the mutant looks at the filename before it looks at the parent
PathError_filename_first(f, p) ==
    IF is_dir(f, p) THEN <<MsgIsDirectory>>
    ELSE IF file_name(p) = <<>> \/ file_name(p)[1] = <<>> THEN <<MsgEmptyFilename>>
    ELSE IF parent(p) # <<>> /\ ~exists(f, parent(p)) THEN <<MsgParentMissing>>
    ELSE <<>>

\* the three checks of validate_and_finalize_path: the message it stores, <<>> when it accepts
PathError(f, p) ==
    IF is_dir(f, p) THEN <<MsgIsDirectory>>
    ELSE IF parent(p) # <<>> /\ ~exists(f, parent(p)) THEN <<MsgParentMissing>>
    ELSE IF file_name(p) = <<>> \/ file_name(p)[1] = <<>> THEN <<MsgEmptyFilename>>
    ELSE <<>>

(***************************************************************************)
(* ScriptGenerator                                                         *)
(*                                                                         *)
(* A script is a sequence of lines; a line is the sequence of the pieces   *)
(* format! concatenates (template text as whole strings, profile names as  *)
(* their characters); "" contributes no piece.                             *)
(***************************************************************************)
script_file_placeholder == "de_switch_script.sh"

\* the mutant takes the display manager of the first entry
target_dm_first(target) == DE_DM_MAP[1][2]

\* DE_DM_MAP.iter().find(..).map(..).unwrap_or("lightdm")
target_dm(target) ==
    LET hits == {i \in 1..Len(DE_DM_MAP) : DE_DM_MAP[i][1] = target}
    IN  IF hits = {} THEN "lightdm" ELSE DE_DM_MAP[Min(hits)][2]

\* the mutant puts sudo before every package manager
sudo_prefix_always(pkg_manager) == <<"sudo", " ">>

\* sudo_cmd followed by sudo_space (sudo_remove_cmd and its space are computed alike)
sudo_prefix(pkg_manager) == IF pkg_manager = "pacman" THEN <<"sudo", " ">> ELSE <<>>

\* what follows the package manager in the install command for a package group
InstallGroupHead == " -S "

\* what follows the package manager in the install command for the packages of a profile
InstallProfileHead == " -S $(eos-packagelist --install \""

InstallProfileTail == "\")"

\* the mutant knows no package group
special_install_cmd_no_group(target, pkg_manager) ==
    << <<"echo \"Installing packages for ">> \o target \o <<" using eos-packagelist...\"">>,
       sudo_prefix(pkg_manager) \o <<pkg_manager, InstallProfileHead>>
           \o target \o <<InstallProfileTail>> >>

\* the two lines of special_install_cmd
special_install_cmd(target, pkg_manager) ==
    IF \E e \in SPECIAL_INSTALL_MAP : e[1] = target
    THEN LET pkg_group == (CHOOSE e \in SPECIAL_INSTALL_MAP : e[1] = target)[2]
         IN  << <<"echo \"Installing special package group: ", pkg_group, "\"">>,
                sudo_prefix(pkg_manager) \o <<pkg_manager, InstallGroupHead, pkg_group>> >>
    ELSE << <<"echo \"Installing packages for ">> \o target \o <<" using eos-packagelist...\"">>,
            sudo_prefix(pkg_manager) \o <<pkg_manager, InstallProfileHead>>
                \o target \o <<InstallProfileTail>> >>

IfHead == "if [ -n \"$CURRENT_DE_PROFILE\" ] && [ \"$CURRENT_DE_PROFILE\" != \"Unknown-Desktop\" ] && [ \"$CURRENT_DE_PROFILE\" != \""

IfTail == "\" ]; then"

AssignHead == "CURRENT_DE_PROFILE=\""

EnumerateLine == <<"    eos-packagelist \"$CURRENT_DE_PROFILE\" > /tmp/old_de_packages.txt">>

RemoveTail == " -Rcs - < /tmp/old_de_packages.txt"

SkipLine == <<"    echo \"Skipping old DE removal (Current DE profile: $CURRENT_DE_PROFILE is Unknown or matches target).\"">>

ScriptHeader(current, target, pkg_manager) ==
    << <<"#!/bin/bash">>,
       <<"# ----------------------------------------------------">>,
       <<"# Generated by Rust DE Switcher TUI">>,
       <<"# Target DE: ">> \o target,
       <<"# Package Manager: ", pkg_manager>>,
       <<"#">>,
       <<"# REVIEW THIS SCRIPT BEFORE RUNNING:">>,
       <<"# bash ", script_file_placeholder>>,
       <<"# ----------------------------------------------------">>,
       <<"echo \"Preparing to switch from ">> \o current \o <<" to ">> \o target
           \o <<" using ", pkg_manager, "...\"">>,
       <<>> >>

ScriptRemoval(current, target, pkg_manager) ==
    << <<"# 1. REMOVE CURRENT DE PACKAGES">>,
       <<"# This assumes the current DE profile is one of the recognized eos-packagelist profiles.">>,
       <<"# CAUTION: This operation removes package dependencies recursively.">>,
       <<>>,
       <<AssignHead>> \o current \o <<"\"">>,
       <<>>,
       <<IfHead>> \o target \o <<IfTail>>,
       <<"    echo \"Creating package list for removal: $CURRENT_DE_PROFILE...\"">>,
       <<>>,
       <<"    # eos-packagelist runs as user">>,
       EnumerateLine,
       <<"    ">>,
       <<"    echo \"Removing old DE packages (may prompt for password)...\"">>,
       <<"    # -Rcs: Remove, cascade, remove dependencies only required by package(s) being removed">>,
       <<"    ">> \o sudo_prefix(pkg_manager) \o <<pkg_manager, RemoveTail>>,
       <<"    rm /tmp/old_de_packages.txt">>,
       <<>>,
       <<"else">>,
       SkipLine,
       <<"fi">>,
       <<>> >>

ScriptInstall(target, pkg_manager) ==
    << <<"# 2. INSTALL NEW DE PACKAGES">> >>
    \o special_install_cmd(target, pkg_manager)
    \o << <<>>, <<>> >>

DisableLine == <<"sudo systemctl disable --force $(systemctl list-units --type=service --state=enabled --no-pager | grep \"display-manager\" | awk '{print $1}') 2>/dev/null">>

EnableHead == "sudo systemctl enable "

ScriptDisplayManager(target) ==
    << <<"# 3. ENABLE THE APPROPRIATE DISPLAY MANAGER">>,
       <<"echo \"Enabling Display Manager: ", target_dm(target), "\"">>,
       <<>>,
       <<"# Disable any currently enabled display-manager service">>,
       DisableLine,
       <<>>,
       <<"# Enable the new display manager">>,
       <<EnableHead, target_dm(target)>>,
       <<>> >>

ScriptReboot ==
    << <<"# 4. Final message and reboot">>,
       <<"echo \"\"">>,
       <<"echo \"!!! Installation and configuration complete. !!!\"">>,
       <<"echo \"!!! You MUST reboot now to finish the switch. !!!\"">>,
       <<>>,
       <<"# Prompt for reboot">>,
       <<"read -r -p \"Do you want to reboot now? [y/N]: \" response">>,
       <<"case \"$response\" in">>,
       <<"    [yY][eE][sS]|[yY]) ">>,
       <<"        sudo reboot">>,
       <<"        ;;">>,
       <<"    *)">>,
       <<"        echo \"Please reboot manually to complete the switch.\"">>,
       <<"        ;;">>,
       <<"esac">> >>

\* the mutant tests the current profile against the empty string instead of the target
generate_script_wrong_guard(current, target, pkg_manager) ==
    ScriptHeader(current, target, pkg_manager)
    \o ScriptRemoval(current, <<>>, pkg_manager)
    \o ScriptInstall(target, pkg_manager)
    \o ScriptDisplayManager(target)
    \o ScriptReboot

\* App::generate_script on (current_de_profile, available_des[selected_de_index], PKG_MANAGER_LIST[..])
generate_script(current, target, pkg_manager) ==
    ScriptHeader(current, target, pkg_manager)
    \o ScriptRemoval(current, target, pkg_manager)
    \o ScriptInstall(target, pkg_manager)
    \o ScriptDisplayManager(target)
    \o ScriptReboot

\* script_content.replace("de_switch_script.sh", &file_name_only), piece by piece
RECURSIVE ReplacePlaceholder(_, _)
ReplacePlaceholder(line, name) ==
    IF line = <<>> THEN <<>>
    ELSE (IF Head(line) = script_file_placeholder THEN name ELSE <<Head(line)>>)
         \o ReplacePlaceholder(Tail(line), name)

\* what main() hands to fs::write once run_app has returned with should_quit set
FinalScript(full_path, current, target, pkg_manager) ==
    LET file_name_only == IF file_name(full_path) = <<>>
                          THEN <<"d","e","_","s","w","i","t","c","h","e","r",".","s","h">>
                          ELSE file_name(full_path)[1]
        script_content == generate_script(current, target, pkg_manager)
    IN  [i \in 1..Len(script_content) |-> ReplacePlaceholder(script_content[i], file_name_only)]

(***************************************************************************)
(* Inputs: the environment, the listing tool, the filesystem, the keyboard *)
(***************************************************************************)
S_Unknown == <<"U","n","k","n","o","w","n">>

\* XDG_CURRENT_DESKTOP: unset, empty, "KDE", "cosmic", "x:lx", "i3"
EnvSamples ==
    { [set |-> FALSE, val |-> <<>>],
      [set |-> TRUE,  val |-> <<>>],
      [set |-> TRUE,  val |-> <<"K","D","E">>],
      [set |-> TRUE,  val |-> <<"c","o","s","m","i","c">>],
      [set |-> TRUE,  val |-> <<"x",":","l","x">>],
      [set |-> TRUE,  val |-> <<"i","3">>] }

\* `eos-packagelist --list`: could it be started, did it exit with success, the lines of its stdout
QuerySamples ==
    { [spawn_ok |-> FALSE, exit_ok |-> FALSE, lines |-> <<>>],
      [spawn_ok |-> TRUE,  exit_ok |-> FALSE, lines |-> <<GNOME_Desktop>>],
      [spawn_ok |-> TRUE,  exit_ok |-> TRUE,  lines |-> <<>>],
      [spawn_ok |-> TRUE,  exit_ok |-> TRUE,  lines |-> << <<"x">> >>],
      [spawn_ok |-> TRUE,  exit_ok |-> TRUE,
       lines |-> << <<" ">> \o KDE_Desktop, <<"x">>, GNOME_Desktop \o <<" ">> >>],
      [spawn_ok |-> TRUE,  exit_ok |-> TRUE,
       lines |-> <<COSMIC_Desktop, i3_Window_Manager>>] }

\* the value of env and query once App::new has read them
NoEnv == [set |-> FALSE, val |-> <<>>]

NoQuery == [spawn_ok |-> FALSE, exit_ok |-> FALSE, lines |-> <<>>]

ResolvedProfiles ==
    {KDE_Desktop, LXQT_Desktop, i3_Window_Manager, COSMIC_Desktop, Unknown_Desktop}

\* an empty working directory, and one in which the default script names for the targets
\* GNOME-Desktop and i3-Window-Manager are taken by directories
FsSamples ==
    { [dirs |-> {<<>>, Cwd}, files |-> {}],
      [dirs |-> {<<>>, Cwd}
                \cup {Cwd \o <<generate_initial_filename(p, t)>> :
                        p \in ResolvedProfiles, t \in {GNOME_Desktop, i3_Window_Manager}},
       files |-> {}] }

\* the UTF-8 encoding of the characters a key can carry; "e-acute" takes two bytes
CharBytes(c) == IF c = "e-acute" THEN <<"C3", "A9">> ELSE <<c>>

IsContinuation(b) == b \in {"A9"}

Key(code, ch, ctrl) == [code |-> code, ch |-> ch, ctrl |-> ctrl]

KeyEvents ==
    {Key("Char", c, FALSE) : c \in {"j", "/", "e-acute"}}
    \cup {Key("Char", "p", TRUE)}
    \cup {Key(code, "", FALSE) :
            code \in {"Esc", "Down", "Up", "Tab", "Enter", "Backspace", "Delete",
                      "Left", "Right", "Home"}}

(***************************************************************************)
(* App                                                                     *)
(***************************************************************************)
\* the mutant takes the first profile, whatever is selected
current_target_first == available_des[1]

current_target == available_des[selected_de_index + 1]

current_pkg_manager == PKG_MANAGER_LIST[selected_pkg_manager_index + 1]

Init ==
    /\ pc = "Start"
    /\ env \in EnvSamples
    /\ query \in QuerySamples
    /\ fs \in FsSamples
    /\ current_de_raw = <<>>
    /\ current_de_profile = <<>>
    /\ available_des = <<>>
    /\ selected_de_index = 0
    /\ selected_pkg_manager_index = 0
    /\ should_quit = FALSE
    /\ current_step = "SelectDE"
    /\ input_buffer = <<>>
    /\ input_cursor_position = 0
    /\ input_error = <<>>
    /\ keys = 0
    /\ written = <<>>

\* the App is dropped: main() returns, or the process dies
DropApp ==
    /\ current_de_raw' = <<>>
    /\ current_de_profile' = <<>>
    /\ available_des' = <<>>
    /\ selected_de_index' = 0
    /\ selected_pkg_manager_index' = 0
    /\ should_quit' = FALSE
    /\ current_step' = "SelectDE"
    /\ input_buffer' = <<>>
    /\ input_cursor_position' = 0
    /\ input_error' = <<>>
    /\ keys' = 0

\* main() fails to set the terminal up after App::new: it returns the error
TerminalSetupError ==
    /\ pc = "Start"
    /\ query.spawn_ok
    /\ pc' = "Error"
    /\ env' = NoEnv
    /\ query' = NoQuery
    /\ UNCHANGED <<fs, app, keys, written>>

\* App::new, and main() up to the call of run_app
AppNew ==
    /\ pc = "Start"
    /\ env' = NoEnv
    /\ query' = NoQuery
    /\ UNCHANGED <<fs, keys, written>>
    /\ IF ~query.spawn_ok
       THEN /\ pc' = "InitFailed"
            /\ UNCHANGED app
       ELSE LET raw          == split_last(IF env.set THEN env.val ELSE S_Unknown, ":")
                profile      == map_raw_de_to_profile(raw)
                available    == get_available_des(query)
            IN  /\ current_de_raw' = raw
                /\ current_de_profile' = profile
                /\ available_des' = available
                /\ selected_de_index' = 0
                /\ selected_pkg_manager_index' = 0
                /\ should_quit' = FALSE
                /\ current_step' = "SelectDE"
                /\ input_buffer' = initial_path(profile, available)
                /\ input_cursor_position' = Len(initial_path(profile, available))
                /\ input_error' = <<>>
                /\ pc' = "Running"

\* the mutant never re-derives the path
update_filename_on_de_change_never(step, index) ==
    <<input_buffer, input_cursor_position>>

\* App::update_filename_on_de_change with current_step = step and selected_de_index = index:
\* the resulting <<input_buffer, input_cursor_position>>
update_filename_on_de_change(step, index) ==
    LET new_filename == generate_initial_filename(current_de_profile, available_des[index + 1])
    IN  IF step = "SelectDE"
        THEN <<(<<".","/">> \o new_filename), Len(<<".","/">> \o new_filename)>>
        ELSE <<input_buffer, input_cursor_position>>

(***************************************************************************)
(* run_app: one action per arm of the two key matches                      *)
(***************************************************************************)
InSelect == pc = "Running" /\ current_step = "SelectDE"

InInput == pc = "Running" /\ current_step = "InputPath"

IsChar(k, c) == k.code = "Char" /\ k.ch = c

\* KeyCode::Char('q') | KeyCode::Esc => return Ok(())
SelectQuit(k) ==
    /\ InSelect
    /\ IsChar(k, "q") \/ k.code = "Esc"
    /\ pc' = "Cancelled"
    /\ UNCHANGED <<env, query, fs, app, keys, written>>

\* the index App::next_de moves to
next_de_index(index, len) == (index + 1) % len

\* the mutant stops at the first profile
previous_de_index_no_wrap(index, len) == IF index > 0 THEN index - 1 ELSE 0

\* the index App::previous_de moves to
previous_de_index(index, len) == IF index > 0 THEN index - 1 ELSE len - 1

\* what next_de and previous_de do once the index is chosen
MoveTo(index) ==
    /\ selected_de_index' = index
    /\ input_buffer' = update_filename_on_de_change(current_step, index)[1]
    /\ input_cursor_position' = update_filename_on_de_change(current_step, index)[2]
    /\ UNCHANGED <<pc, env, query, fs, current_de_raw, current_de_profile, available_des,
                   selected_pkg_manager_index, should_quit, current_step, input_error,
                   keys, written>>

\* KeyCode::Char('j') | KeyCode::Down => app.next_de()
SelectNext(k) ==
    /\ InSelect
    /\ IsChar(k, "j") \/ k.code = "Down"
    /\ MoveTo(next_de_index(selected_de_index, Len(available_des)))

\* KeyCode::Char('k') | KeyCode::Up => app.previous_de()
SelectPrevious(k) ==
    /\ InSelect
    /\ IsChar(k, "k") \/ k.code = "Up"
    /\ MoveTo(previous_de_index(selected_de_index, Len(available_des)))

\* the mutant cycles through the first two package managers only
cycle_pkg_manager_index_two(index) == (index + 1) % 2

\* the mutant does not wrap
cycle_pkg_manager_index_no_wrap(index) == index + 1

\* the index App::cycle_pkg_manager moves to
cycle_pkg_manager_index(index) == (index + 1) % Len(PKG_MANAGER_LIST)

\* KeyCode::Char('p') with CONTROL, or KeyCode::Tab => app.cycle_pkg_manager()
SelectCyclePkgManager(k) ==
    /\ InSelect
    /\ (IsChar(k, "p") /\ k.ctrl) \/ k.code = "Tab"
    /\ selected_pkg_manager_index' = cycle_pkg_manager_index(selected_pkg_manager_index)
    /\ UNCHANGED <<pc, env, query, fs, current_de_raw, current_de_profile, available_des,
                   selected_de_index, should_quit, current_step, input_buffer,
                   input_cursor_position, input_error, keys, written>>

\* KeyCode::Enter in SelectDE
SelectEnter(k) ==
    /\ InSelect
    /\ k.code = "Enter"
    /\ current_step' = "InputPath"
    /\ input_error' = <<>>
    /\ keys' = 0
    /\ UNCHANGED <<pc, env, query, fs, current_de_raw, current_de_profile, available_des,
                   selected_de_index, selected_pkg_manager_index, should_quit, input_buffer,
                   input_cursor_position, written>>

\* _ => {} in SelectDE
SelectOther(k) ==
    /\ InSelect
    /\ ~(IsChar(k, "q") \/ k.code = "Esc")
    /\ ~(IsChar(k, "j") \/ k.code = "Down")
    /\ ~(IsChar(k, "k") \/ k.code = "Up")
    /\ ~((IsChar(k, "p") /\ k.ctrl) \/ k.code = "Tab")
    /\ k.code # "Enter"
    /\ UNCHANGED vars

\* str::is_char_boundary
is_char_boundary(s, i) ==
    \/ i = 0
    \/ i = Len(s)
    \/ i < Len(s) /\ ~IsContinuation(s[i + 1])

\* the encoded width of the character that starts at byte offset i
CharLenAt(s, i) == IF s[i + 1] = "C3" THEN 2 ELSE 1

\* String::insert and String::remove panic off a character boundary (and remove at the end)
CanInsert(s, i) == i <= Len(s) /\ is_char_boundary(s, i)

CanRemove(s, i) == i < Len(s) /\ is_char_boundary(s, i)

Inserted(s, i, c) == SubSeq(s, 1, i) \o CharBytes(c) \o Drop(s, i)

Removed(s, i) == SubSeq(s, 1, i) \o Drop(s, i + CharLenAt(s, i))

\* the panic unwinds main(): the process dies with the App
Panic ==
    /\ pc' = "Panicked"
    /\ DropApp
    /\ UNCHANGED <<env, query, fs, written>>

\* an edit of the path: the new buffer and cursor, nothing else
Edit(buffer, cursor) ==
    /\ keys < MaxKeys
    /\ input_buffer' = buffer
    /\ input_cursor_position' = cursor
    /\ keys' = keys + 1
    /\ UNCHANGED <<pc, env, query, fs, current_de_raw, current_de_profile, available_des,
                   selected_de_index, selected_pkg_manager_index, should_quit, current_step,
                   input_error, written>>

\* KeyCode::Char(c) in InputPath
InputChar(k) ==
    /\ InInput
    /\ k.code = "Char"
    /\ IF CanInsert(input_buffer, input_cursor_position)
       THEN Edit(Inserted(input_buffer, input_cursor_position, k.ch), input_cursor_position + 1)
       ELSE Panic

\* KeyCode::Backspace
InputBackspace(k) ==
    /\ InInput
    /\ k.code = "Backspace"
    /\ IF input_cursor_position > 0
       THEN IF CanRemove(input_buffer, input_cursor_position - 1)
            THEN Edit(Removed(input_buffer, input_cursor_position - 1), input_cursor_position - 1)
            ELSE Panic
       ELSE UNCHANGED vars

\* KeyCode::Delete
InputDelete(k) ==
    /\ InInput
    /\ k.code = "Delete"
    /\ IF input_cursor_position < Len(input_buffer)
       THEN IF CanRemove(input_buffer, input_cursor_position)
            THEN Edit(Removed(input_buffer, input_cursor_position), input_cursor_position)
            ELSE Panic
       ELSE UNCHANGED vars

\* KeyCode::Left
InputLeft(k) ==
    /\ InInput
    /\ k.code = "Left"
    /\ IF input_cursor_position > 0
       THEN Edit(input_buffer, input_cursor_position - 1)
       ELSE UNCHANGED vars

\* the mutant moves right without looking at the end of the buffer
InputRight_unguarded(k) ==
    /\ InInput
    /\ k.code = "Right"
    /\ Edit(input_buffer, input_cursor_position + 1)

\* KeyCode::Right
InputRight(k) ==
    /\ InInput
    /\ k.code = "Right"
    /\ IF input_cursor_position < Len(input_buffer)
       THEN Edit(input_buffer, input_cursor_position + 1)
       ELSE UNCHANGED vars

\* the mutant finishes whatever the checks say
validate_and_finalize_path_always == TRUE

\* the value App::validate_and_finalize_path returns
validate_and_finalize_path == PathError(fs, input_buffer) = <<>>

\* the mutant reports every failed check with the message of the last one
input_error_after_validate_last_message ==
    IF PathError(fs, input_buffer) = <<>> THEN <<>> ELSE <<MsgEmptyFilename>>

\* the mutant leaves the message of an earlier failure in place when it accepts
input_error_after_validate_stale ==
    IF PathError(fs, input_buffer) = <<>> THEN input_error ELSE PathError(fs, input_buffer)

\* input_error as App::validate_and_finalize_path leaves it
input_error_after_validate == PathError(fs, input_buffer)

\* KeyCode::Enter in InputPath: validate_and_finalize_path, and return Ok(()) when it accepts
InputEnter(k) ==
    /\ InInput
    /\ k.code = "Enter"
    /\ input_error' = input_error_after_validate
    /\ IF validate_and_finalize_path
       THEN /\ should_quit' = TRUE
            /\ pc' = "Done"
       ELSE UNCHANGED <<should_quit, pc>>
    /\ UNCHANGED <<env, query, fs, current_de_raw, current_de_profile, available_des,
                   selected_de_index, selected_pkg_manager_index, current_step, input_buffer,
                   input_cursor_position, keys, written>>

\* KeyCode::Esc in InputPath
InputEsc(k) ==
    /\ InInput
    /\ k.code = "Esc"
    /\ current_step' = "SelectDE"
    /\ input_error' = <<>>
    /\ input_buffer' = update_filename_on_de_change("SelectDE", selected_de_index)[1]
    /\ input_cursor_position' = update_filename_on_de_change("SelectDE", selected_de_index)[2]
    /\ keys' = 0
    /\ UNCHANGED <<pc, env, query, fs, current_de_raw, current_de_profile, available_des,
                   selected_de_index, selected_pkg_manager_index, should_quit, written>>

\* the mutant lets the Down key move the selection while the path is typed
InputOther_navigates(k) ==
    /\ InInput
    /\ k.code = "Down"
    /\ MoveTo(next_de_index(selected_de_index, Len(available_des)))

\* _ => {} in InputPath
InputOther(k) ==
    /\ InInput
    /\ k.code \notin {"Char", "Backspace", "Delete", "Left", "Right", "Enter", "Esc"}
    /\ UNCHANGED vars

\* terminal.draw, event::poll or event::read fails: run_app returns the error, main() returns it
TerminalError ==
    /\ pc = "Running"
    /\ pc' = "Error"
    /\ DropApp
    /\ UNCHANGED <<env, query, fs, written>>

\* the mutant writes the script whether or not should_quit is set
MainWrites_always == TRUE

\* if app.should_quit { ... fs::write ... }
MainWrites == should_quit

\* main() after run_app returned Ok: restore the terminal, then write the script if should_quit
MainFinish ==
    /\ pc \in {"Done", "Cancelled"}
    /\ \E restore_ok \in BOOLEAN :
          IF ~restore_ok
          THEN pc' = "Error" /\ UNCHANGED written
          ELSE /\ pc' = "Exited"
               /\ written' =
                     IF MainWrites
                     THEN <<[path |-> input_buffer,
                             text |-> FinalScript(input_buffer, current_de_profile,
                                                  current_target, current_pkg_manager)]>>
                     ELSE written
    /\ DropApp
    /\ UNCHANGED <<env, query, fs>>

Next ==
    \/ AppNew
    \/ TerminalSetupError
    \/ TerminalError
    \/ MainFinish
    \/ \E k \in KeyEvents :
          \/ SelectQuit(k)
          \/ SelectNext(k)
          \/ SelectPrevious(k)
          \/ SelectCyclePkgManager(k)
          \/ SelectEnter(k)
          \/ SelectOther(k)
          \/ InputChar(k)
          \/ InputBackspace(k)
          \/ InputDelete(k)
          \/ InputLeft(k)
          \/ InputRight(k)
          \/ InputEnter(k)
          \/ InputEsc(k)
          \/ InputOther(k)

Spec == Init /\ [][Next]_vars

(***************************************************************************)
(* The path check on its own: the session is in InputPath with a path the   *)
(* user has typed, and Enter is pressed                                     *)
(***************************************************************************)
MaxPathLen == 4

PathChars == {".", "/", "a"}

\* every text of at most MaxPathLen characters of PathChars
PathSamples == UNION {[1..n -> PathChars] : n \in 0..MaxPathLen}

\* the working directory holds nothing, a directory "a", or a file "a"
FsPathSamples ==
    { [dirs |-> {<<>>, Cwd}, files |-> {}],
      [dirs |-> {<<>>, Cwd, Cwd \o << <<"a">> >>}, files |-> {}],
      [dirs |-> {<<>>, Cwd}, files |-> {Cwd \o << <<"a">> >>}] }

\* run_app waits for a key in InputPath; the buffer holds what the user typed
InitPath ==
    /\ pc = "Running"
    /\ env = NoEnv
    /\ query = NoQuery
    /\ fs \in FsPathSamples
    /\ current_de_raw = <<"K","D","E">>
    /\ current_de_profile = KDE_Desktop
    /\ available_des = CatalogProfiles
    /\ selected_de_index = 0
    /\ selected_pkg_manager_index = 0
    /\ should_quit = FALSE
    /\ current_step = "InputPath"
    /\ input_buffer \in PathSamples
    /\ input_cursor_position = Len(input_buffer)
    /\ input_error = <<>>
    /\ keys = 0
    /\ written = <<>>

NextPath ==
    \/ \E k \in KeyEvents : InputEnter(k)
    \/ MainFinish

SpecPath == InitPath /\ [][NextPath]_vars

(***************************************************************************)
(* Sessions that also start in InputPath on a short path with the cursor    *)
(* anywhere in it: what the user has after deleting the default path and    *)
(* typing a few characters                                                  *)
(***************************************************************************)
MaxEditLen == 2

\* every text of at most MaxEditLen characters of PathChars
EditSamples == UNION {[1..n -> PathChars] : n \in 0..MaxEditLen}

\* run_app waits for a key in InputPath; the buffer holds a short path, the cursor is in it
InitEdit ==
    /\ pc = "Running"
    /\ env = NoEnv
    /\ query = NoQuery
    /\ fs = [dirs |-> {<<>>, Cwd}, files |-> {}]
    /\ current_de_raw = <<"K","D","E">>
    /\ current_de_profile = KDE_Desktop
    /\ available_des = CatalogProfiles
    /\ selected_de_index = 0
    /\ selected_pkg_manager_index = 0
    /\ should_quit = FALSE
    /\ current_step = "InputPath"
    /\ input_buffer \in EditSamples
    /\ input_cursor_position \in 0..Len(input_buffer)
    /\ input_error = <<>>
    /\ keys = 0
    /\ written = <<>>

SpecEdit == (Init \/ InitEdit) /\ [][Next]_vars

(***************************************************************************)
(* Claims                                                                  *)
(***************************************************************************)
\* "./" followed by the filename the code derives for the current profile and the selected target
DerivedDefaultPath ==
    <<".","/">> \o generate_initial_filename(current_de_profile, current_target)

\* C1: the flow becomes Done only by an Enter in InputPath on a buffer the validation accepts,
\* and a (path, script) pair reaches the file writer only from Done, with that buffer as its
\* path; no other step, a cancel included, writes anything.
C1_DoneOnlyByValidConfirm ==
    [][ /\ (pc' = "Done" /\ pc # "Done")
            => /\ InInput
               /\ PathError(fs, input_buffer) = <<>>
               /\ input_buffer' = input_buffer
               /\ should_quit'
               /\ \E k \in KeyEvents : k.code = "Enter" /\ InputEnter(k)
        /\ (written' # written)
            => /\ pc = "Done"
               /\ current_step = "InputPath"
               /\ PathError(fs, input_buffer) = <<>>
               /\ written = <<>>
               /\ Len(written') = 1
               /\ written'[1].path = input_buffer
               /\ written'[1].text =
                      FinalScript(input_buffer, current_de_profile, current_target,
                                  current_pkg_manager)
        /\ (pc # "Done") => (written' = written)
      ]_vars

\* a script has been written under a path the user edited
C1_Witness ==
    /\ pc = "Exited"
    /\ written # <<>>
    /\ \E i \in 1..Len(written[1].path) : written[1].path[i] = "/" /\ i > 2

\* C2: an Enter in InputPath on a path the validation rejects keeps the flow in InputPath with
\* the message of the failed check attached, keeps the buffer, the cursor and both indices, and
\* does not finish; an Enter on an accepted path finishes, whatever message is attached.
C2_FailedConfirmStays ==
    [][ \A k \in KeyEvents : InputEnter(k) =>
            /\ PathError(fs, input_buffer) # <<>>
                => /\ pc' = "Running"
                   /\ current_step' = "InputPath"
                   /\ input_error' = PathError(fs, input_buffer)
                   /\ input_error' # <<>>
                   /\ ~should_quit'
                   /\ written' = <<>>
                   /\ UNCHANGED <<input_buffer, input_cursor_position, selected_de_index,
                                  selected_pkg_manager_index>>
            /\ PathError(fs, input_buffer) = <<>>
                => /\ pc' = "Done"
                   /\ should_quit'
                   /\ input_error' = <<>>
      ]_vars

\* a confirm has failed, the path has been edited since and is now one the validation accepts
C2_Witness ==
    /\ InInput
    /\ input_error # <<>>
    /\ keys > 0
    /\ PathError(fs, input_buffer) = <<>>

\* C3: an Esc in InputPath brings the flow back to SelectDE with the buffer set to the default
\* path of the current profile and the selected target, the cursor at its end and no message;
\* the selection is kept.
C3_CancelDiscardsEdits ==
    [][ \A k \in KeyEvents : InputEsc(k) =>
            /\ pc' = "Running"
            /\ current_step' = "SelectDE"
            /\ input_buffer' = DerivedDefaultPath
            /\ input_cursor_position' = Len(DerivedDefaultPath)
            /\ input_error' = <<>>
            /\ UNCHANGED <<selected_de_index, selected_pkg_manager_index, current_de_profile,
                           available_des, should_quit, written>>
      ]_vars

\* the path has been edited and a confirm has failed on it: the state an Esc discards
C3_Witness ==
    /\ InInput
    /\ input_error # <<>>
    /\ input_buffer # DerivedDefaultPath
    /\ keys > 0

\* C4: a cancel in SelectDE (q or Esc) ends run_app with should_quit unset, and from there
\* main() writes nothing.
C4_CancelWritesNothing ==
    [][ /\ \A k \in KeyEvents : SelectQuit(k) =>
               /\ pc' = "Cancelled"
               /\ ~should_quit'
               /\ written' = <<>>
        /\ pc = "Cancelled" =>
               /\ pc' \in {"Exited", "Error"}
               /\ written' = <<>>
      ]_vars

\* the session has ended by a cancel after navigation and package-manager cycling
C4_Witness ==
    /\ pc = "Cancelled"
    /\ selected_de_index > 0
    /\ selected_pkg_manager_index > 0
    /\ written = <<>>

\* C5: whenever the flow is in SelectDE the buffer is the default path of the current profile
\* and the selected target, with the cursor at its end; an Enter in SelectDE carries that
\* buffer into InputPath.
C5_SelectingHasDefaultPath ==
    /\ [](InSelect => /\ input_buffer = DerivedDefaultPath
                      /\ input_cursor_position = Len(input_buffer))
    /\ [][ \A k \in KeyEvents : SelectEnter(k) =>
               /\ current_step' = "InputPath"
               /\ input_buffer' = DerivedDefaultPath
               /\ UNCHANGED <<selected_de_index, current_de_profile, available_des>>
         ]_vars

\* the flow is in SelectDE on the last of several targets
C5_Witness ==
    /\ InSelect
    /\ selected_de_index > 0
    /\ selected_de_index = Len(available_des) - 1

\* a profile name without its trailing "-Desktop" or "-Window-Manager"
StripSuffix(profile) ==
    IF ends_with(profile, S_Desktop)
    THEN SubSeq(profile, 1, Len(profile) - Len(S_Desktop))
    ELSE IF ends_with(profile, S_Window_Manager)
         THEN SubSeq(profile, 1, Len(profile) - Len(S_Window_Manager))
         ELSE profile

\* the filename convention: de_switcher_<from>_to_<to>.sh, de_switcher_from_Unknown_to_<to>.sh
ConventionFilename(from_profile, to_profile) ==
    IF from_profile = Unknown_Desktop
    THEN <<"d","e","_","s","w","i","t","c","h","e","r","_","f","r","o","m","_",
           "U","n","k","n","o","w","n","_","t","o","_">>
         \o StripSuffix(to_profile) \o <<".","s","h">>
    ELSE <<"d","e","_","s","w","i","t","c","h","e","r","_">> \o StripSuffix(from_profile)
         \o <<"_","t","o","_">> \o StripSuffix(to_profile) \o <<".","s","h">>

\* C6: the default filename is de_switcher_<from>_to_<to>.sh for a known current profile and
\* de_switcher_from_Unknown_to_<to>.sh for the sentinel, <from> and <to> being the profile
\* names without their suffix.  Stated on the default path the flow shows in SelectDE.
C6_DefaultFilenameConvention ==
    InSelect =>
        input_buffer = <<".","/">> \o ConventionFilename(current_de_profile, current_target)

\* C7: an absent XDG_CURRENT_DESKTOP, and an empty raw desktop identifier, resolve to the
\* sentinel "Unknown-Desktop".
C7_EmptyOrAbsentIsSentinel ==
    [][ (pc = "Start" /\ pc' = "Running") =>
            /\ ~env.set => current_de_profile' = Unknown_Desktop
            /\ current_de_raw' = <<>> => current_de_profile' = Unknown_Desktop
      ]_vars

\* C8: the resolved profile is a profile name of DE_DM_MAP or the sentinel, and when it is a
\* DE_DM_MAP name that starts with the uppercased raw identifier, no earlier DE_DM_MAP name
\* starts with it.
C8_ResolveInCatalogOrSentinel ==
    pc = "Running" =>
        LET up == to_uppercase(current_de_raw)
        IN  /\ \/ current_de_profile = Unknown_Desktop
               \/ \E i \in 1..Len(DE_DM_MAP) : current_de_profile = DE_DM_MAP[i][1]
            /\ \A i \in 1..Len(DE_DM_MAP) :
                   (current_de_profile = DE_DM_MAP[i][1] /\ starts_with(DE_DM_MAP[i][1], up))
                       => \A j \in 1..(i - 1) : ~starts_with(DE_DM_MAP[j][1], up)

\* the listing tool printed no line that names a profile
NoProfileLines(q) == \A i \in 1..Len(q.lines) : ~KeepLine(q.lines[i])

\* C9 as claimed: when the listing tool cannot be started, exits unsuccessfully or prints no
\* profile line, App::new still succeeds and the available profiles are the catalog's names
\* in catalog order.
C9_QueryFailureNeverFatal ==
    [][ (pc = "Start" /\ (~query.spawn_ok \/ ~query.exit_ok \/ NoProfileLines(query))) =>
            /\ pc' # "InitFailed"
            /\ pc' = "Running" => available_des' = CatalogProfiles
      ]_vars

\* C9 as amended: when the tool starts and exits unsuccessfully or prints no profile line, the
\* session starts on the catalog's names in catalog order; when the tool cannot be started,
\* App::new fails, main() returns the error and no session ever runs.
C9_FallbackUnlessSpawnFails ==
    [][ /\ (pc = "Start" /\ query.spawn_ok /\ (~query.exit_ok \/ NoProfileLines(query))) =>
               /\ pc' \in {"Running", "Error"}
               /\ pc' = "Running" =>
                      /\ available_des' = CatalogProfiles
                      /\ Len(available_des') = Len(DE_DM_MAP)
                      /\ \A i \in 1..Len(DE_DM_MAP) : available_des'[i] = DE_DM_MAP[i][1]
        /\ (pc = "Start" /\ ~query.spawn_ok) =>
               /\ pc' = "InitFailed"
               /\ available_des' = <<>>
               /\ written' = <<>>
        /\ pc # "InitFailed"
      ]_vars

\* the session runs on the fallback list, on a target the listing tool did not print
C9_Witness ==
    /\ pc = "Running"
    /\ available_des = CatalogProfiles
    /\ selected_de_index = Len(DE_DM_MAP) - 1

\* the lines of a script that start with the piece head
LinesStarting(text, head) ==
    {i \in 1..Len(text) : text[i] # <<>> /\ text[i][1] = head}

\* the pieces between the first and the last piece of the line that starts with head
Quoted(text, head) ==
    LET line == text[CHOOSE i \in LinesStarting(text, head) : TRUE]
    IN  SubSeq(line, 2, Len(line) - 1)

\* the commands of the removal block: the package-list enumeration and the `<pm> -Rcs` removal
ActiveRemovalLines(text) ==
    {i \in 1..Len(text) :
        \/ text[i] = EnumerateLine
        \/ text[i] # <<>> /\ text[i][Len(text[i])] = RemoveTail}

\* what the shell decides on the `if` of the removal block: the value assigned to
\* CURRENT_DE_PROFILE is non-empty, is not "Unknown-Desktop" and is not the name it is tested against
RemovalBranchTaken(text) ==
    /\ Quoted(text, AssignHead) # <<>>
    /\ Quoted(text, AssignHead) # Unknown_Desktop
    /\ Quoted(text, AssignHead) # Quoted(text, IfHead)

\* the one line of the script that is exactly the given line
LineOf(text, line) == CHOOSE i \in 1..Len(text) : text[i] = line

\* C10 as claimed: the script written for a current profile that equals the target, or is the
\* sentinel, holds none of the removal block's active commands.
C10_NoRemovalCommandsInText ==
    [][ (written' # written
         /\ (current_de_profile = current_target \/ current_de_profile = Unknown_Desktop))
            => ActiveRemovalLines(written'[1].text) = {}
      ]_vars

\* C10 as amended: every script holds the removal block's active commands, all of them between
\* the one `if` of the script and its `else`, with the skip message between `else` and `fi`; the
\* test of that `if` fails when the current profile equals the target or is the sentinel, so
\* that running the script takes the skip branch, and succeeds for any other current profile.
C10_RemovalGuardedAtRunTime ==
    [][ written' # written =>
            LET text == written'[1].text
            IN  /\ Cardinality(LinesStarting(text, IfHead)) = 1
                /\ Cardinality(LinesStarting(text, AssignHead)) = 1
                /\ Cardinality(LinesStarting(text, "else")) = 1
                /\ Cardinality(LinesStarting(text, "fi")) = 1
                /\ Cardinality(ActiveRemovalLines(text)) = 2
                /\ \A i \in ActiveRemovalLines(text) :
                       /\ (CHOOSE j \in LinesStarting(text, IfHead) : TRUE) < i
                       /\ i < LineOf(text, <<"else">>)
                /\ LineOf(text, SkipLine) = LineOf(text, <<"else">>) + 1
                /\ LineOf(text, <<"fi">>) = LineOf(text, <<"else">>) + 2
                /\ LineOf(text, <<"else">>)
                       > (CHOOSE j \in LinesStarting(text, AssignHead) : TRUE)
                /\ (CHOOSE j \in LinesStarting(text, AssignHead) : TRUE)
                       < (CHOOSE j \in LinesStarting(text, IfHead) : TRUE)
                /\ RemovalBranchTaken(text)
                       <=> (current_de_profile # current_target
                            /\ current_de_profile # Unknown_Desktop)
      ]_vars

\* a script has been written whose removal test fails: the current profile was the target or
\* the sentinel
C10_Witness ==
    /\ pc = "Exited"
    /\ written # <<>>
    /\ ~RemovalBranchTaken(written[1].text)

\* the keys that edit the path
EditCodes == {"Char", "Backspace", "Delete", "Left", "Right"}

\* C11: in InputPath every character insert, Backspace, Delete, Left and Right is a text edit
\* after which the session continues in InputPath; no key ends the process abnormally.
C11_EditsNeverTerminate ==
    [][ \A k \in KeyEvents :
            (k.code \in EditCodes
             /\ (InputChar(k) \/ InputBackspace(k) \/ InputDelete(k)
                 \/ InputLeft(k) \/ InputRight(k)))
            => /\ pc' = "Running"
               /\ current_step' = "InputPath"
      ]_vars

\* what a rejecting Enter leaves behind: the message, and the session still in InputPath
Rejected(msg) ==
    /\ input_error' = <<msg>>
    /\ pc' = "Running"
    /\ current_step' = "InputPath"
    /\ ~should_quit'

\* C12: Enter in InputPath rejects with the directory message a path that is an existing
\* directory; otherwise with the missing-directory message a path whose parent is non-empty and
\* does not exist; otherwise with the empty-filename message a path without a final filename
\* component; otherwise it accepts. The path is left as typed and the filesystem is untouched
\* in every case.
C12_ValidateChecksInOrder ==
    [][ \A k \in KeyEvents : InputEnter(k) =>
            LET p == input_buffer
            IN  /\ fs' = fs
                /\ input_buffer' = p
                /\ written' = written
                /\ IF Stat(fs, Components(p)) = "dir"
                   THEN Rejected(MsgIsDirectory)
                   ELSE IF parent(p) # <<>> /\ Stat(fs, parent(p)) = "none"
                   THEN Rejected(MsgParentMissing)
                   ELSE IF file_name(p) = <<>>
                   THEN Rejected(MsgEmptyFilename)
                   ELSE /\ pc' = "Done"
                        /\ should_quit'
                        /\ input_error' = <<>>
      ]_vars

\* the third check has rejected a non-empty path: it is no directory and its parent exists
C12_Witness ==
    /\ InInput
    /\ input_error = <<MsgEmptyFilename>>
    /\ input_buffer # <<>>
    /\ parent(input_buffer) # <<>>

\* C13: for the available profiles of any session and any index the selection has reached,
\* next_de followed by previous_de, and previous_de followed by next_de, give the index back,
\* across the wrap at both ends too.
C13_NextPreviousRoundTrip ==
    [][ \A k \in KeyEvents :
            /\ SelectNext(k)
                => previous_de_index(selected_de_index', Len(available_des'))
                       = selected_de_index
            /\ SelectPrevious(k)
                => next_de_index(selected_de_index', Len(available_des'))
                       = selected_de_index
      ]_vars

\* the selection stands on the last of the nine catalog profiles: the next step forward wraps
C13_Witness ==
    /\ InSelect
    /\ Len(available_des) = Len(DE_DM_MAP)
    /\ selected_de_index = Len(available_des) - 1

\* C14: cycle_pkg_manager applied three times gives the index back, and the three applications
\* visit each of the three package managers once.
C14_CycleThreeTimes ==
    [][ \A k \in KeyEvents : SelectCyclePkgManager(k) =>
            LET i0 == selected_pkg_manager_index
                i1 == selected_pkg_manager_index'
                i2 == cycle_pkg_manager_index(i1)
                i3 == cycle_pkg_manager_index(i2)
            IN  /\ i3 = i0
                /\ {i0, i1, i2} = 0..2
                /\ {PKG_MANAGER_LIST[i + 1] : i \in {i0, i1, i2}} = {"pacman", "yay", "paru"}
      ]_vars

\* the package manager has been cycled to the last one
C14_Witness ==
    /\ InSelect
    /\ selected_pkg_manager_index = 2

\* the lines of the text that hold the piece
LinesWith(text, piece) ==
    {i \in 1..Len(text) : \E j \in 1..Len(text[i]) : text[i][j] = piece}

\* the line runs the package manager through sudo
CarriesSudo(line, pkg_manager) ==
    \E j \in 1..(Len(line) - 2) :
        line[j] = "sudo" /\ line[j + 1] = " " /\ line[j + 2] = pkg_manager

\* the removal command and the install command of the text
PackageCommandLines(text) ==
    LinesWith(text, RemoveTail) \cup LinesWith(text, InstallGroupHead)
    \cup LinesWith(text, InstallProfileHead)

\* C15: in the script that is written the removal command and the install command run the
\* package manager through sudo exactly when it is pacman; with yay and paru neither holds sudo.
C15_SudoOnlyForPacman ==
    [][ written' # written =>
            LET text == written'[1].text
                pm   == current_pkg_manager
            IN  /\ Cardinality(LinesWith(text, RemoveTail)) = 1
                /\ Cardinality(PackageCommandLines(text)) = 2
                /\ \A i \in PackageCommandLines(text) :
                      /\ \E j \in 1..Len(text[i]) : text[i][j] = pm
                      /\ IF pm = "pacman"
                         THEN CarriesSudo(text[i], pm)
                         ELSE \A j \in 1..Len(text[i]) : text[i][j] # "sudo"
      ]_vars

\* a script has been written for an AUR helper
C15_Witness ==
    /\ pc = "Exited"
    /\ written # <<>>
    /\ LinesWith(written[1].text, "paru") # {}
    /\ LinesWith(written[1].text, "sudo") = {}

\* the install-group override of the profile, <<>> when it has none
GroupOverride(profile) ==
    IF profile = COSMIC_Desktop THEN <<"cosmic">>
    ELSE IF profile = i3_Window_Manager THEN <<"i3-gaps">>
    ELSE <<>>

\* the line without a leading sudo
WithoutSudo(line) ==
    IF Len(line) >= 2 /\ line[1] = "sudo" /\ line[2] = " " THEN Drop(line, 2) ELSE line

\* C16: the script that is written installs the literal group name when the target has an
\* install-group override, and otherwise the output of `eos-packagelist --install "<target>"`;
\* it holds exactly one install command, of exactly one of the two forms.
C16_InstallOverrideOrPackageList ==
    [][ written' # written =>
            LET text    == written'[1].text
                pm      == current_pkg_manager
                target  == current_target
                group   == LinesWith(text, InstallGroupHead)
                profile == LinesWith(text, InstallProfileHead)
            IN  /\ Cardinality(group \cup profile) = 1
                /\ group \cap profile = {}
                /\ IF GroupOverride(target) # <<>>
                   THEN \A i \in group \cup profile :
                           WithoutSudo(text[i])
                               = <<pm, " -S ">> \o GroupOverride(target)
                   ELSE \A i \in group \cup profile :
                           WithoutSudo(text[i])
                               = <<pm, " -S $(eos-packagelist --install \"">>
                                 \o target \o <<"\")">>
      ]_vars

\* a script has been written that installs a package group
C16_Witness ==
    /\ pc = "Exited"
    /\ written # <<>>
    /\ LinesWith(written[1].text, InstallGroupHead) # {}
    /\ LinesWith(written[1].text, "cosmic") # {}

\* the display manager the catalog gives the profile, "lightdm" when it lists none
CatalogDisplayManager(profile) ==
    IF \E i \in 1..Len(DE_DM_MAP) : DE_DM_MAP[i][1] = profile
    THEN DE_DM_MAP[CHOOSE i \in 1..Len(DE_DM_MAP) : DE_DM_MAP[i][1] = profile][2]
    ELSE "lightdm"

\* C17: the script that is written enables the display manager the catalog gives the target,
\* "lightdm" when the catalog has no entry for it, and disables the enabled display-manager
\* unit before it enables that one.
C17_EnablesCatalogDisplayManager ==
    [][ written' # written =>
            LET text    == written'[1].text
                enable  == LinesWith(text, EnableHead)
                disable == {i \in 1..Len(text) : text[i] = DisableLine}
            IN  /\ Cardinality(enable) = 1
                /\ Cardinality(disable) = 1
                /\ \A i \in enable :
                      /\ text[i] = <<"sudo systemctl enable ",
                                     CatalogDisplayManager(current_target)>>
                      /\ \A j \in disable : j < i
      ]_vars

\* a script has been written for a target the catalog gives no display manager
C17_Witness ==
    /\ pc = "Exited"
    /\ written # <<>>
    /\ Quoted(written[1].text, IfHead) = COSMIC_Desktop
    /\ LinesWith(written[1].text, "lightdm") # {}

\* the session of the trace: the desktop reported is "KDE", the profiles on offer are
\* KDE-Desktop and GNOME-Desktop
TraceSession ==
    /\ current_de_raw = <<"K","D","E">>
    /\ current_de_profile = KDE_Desktop
    /\ available_des = <<KDE_Desktop, GNOME_Desktop>>

\* the session of the trace with the given selection, in the given step, the path not edited
TraceAt(index, pkg_index, step) ==
    /\ pc = "Running"
    /\ TraceSession
    /\ selected_de_index = index
    /\ selected_pkg_manager_index = pkg_index
    /\ current_step = step
    /\ input_buffer = DerivedDefaultPath

\* the script of the trace: GNOME-Desktop and yay in the header, the packages of the profile
\* installed through eos-packagelist, gdm enabled
TraceScript(text) ==
    /\ text[4] = <<"# Target DE: ">> \o GNOME_Desktop
    /\ text[5] = <<"# Package Manager: ", "yay">>
    /\ LinesWith(text, InstallGroupHead) = {}
    /\ \E i \in 1..Len(text) :
          text[i] = <<"yay", " -S $(eos-packagelist --install \"">>
                    \o GNOME_Desktop \o <<"\")">>
    /\ \E i \in 1..Len(text) : text[i] = <<"sudo systemctl enable ", "gdm">>
    /\ LinesWith(text, EnableHead) = LinesWith(text, "gdm") \ LinesStarting(text, "echo \"Enabling Display Manager: ")

\* the steps of the trace, each from the state the one before it leaves; path_free is what the
\* trace asks of the default path when it is confirmed
TraceSteps(path_free) ==
    /\ (pc = "Start" /\ pc' = "Running" /\ TraceSession')
          => TraceAt(0, 0, "SelectDE")'
    /\ (TraceAt(0, 0, "SelectDE") /\ SelectNext(Key("Down", "", FALSE)))
          => TraceAt(1, 0, "SelectDE")'
    /\ (TraceAt(1, 0, "SelectDE") /\ SelectCyclePkgManager(Key("Tab", "", FALSE)))
          => TraceAt(1, 1, "SelectDE")'
    /\ (TraceAt(1, 1, "SelectDE") /\ SelectEnter(Key("Enter", "", FALSE)))
          => TraceAt(1, 1, "InputPath")'
    /\ (TraceAt(1, 1, "InputPath") /\ path_free /\ InputEnter(Key("Enter", "", FALSE)))
          => /\ pc' = "Done"
             /\ TraceSession'
             /\ selected_de_index' = 1
             /\ selected_pkg_manager_index' = 1
             /\ input_buffer' = input_buffer
    /\ (pc = "Done" /\ TraceSession /\ selected_de_index = 1
        /\ selected_pkg_manager_index = 1 /\ written' # written)
          => /\ written'[1].path = input_buffer
             /\ TraceScript(written'[1].text)

\* C18 as claimed: in the session of the trace one next_de, one cycle_pkg_manager, Enter in
\* SelectDE and Enter on the unedited default path end the session Done, whatever the working
\* directory holds, and the script is the one for GNOME-Desktop, yay and gdm.
C18_TraceEndsDone == [][TraceSteps(TRUE)]_vars

\* C18: in the session of the trace one next_de, one cycle_pkg_manager, Enter in SelectDE and
\* Enter on the unedited default path end the session Done when no directory stands at the
\* default path, and the script is then the one for GNOME-Desktop, yay and gdm.
C18_TraceEndsDoneIfNoDirectory == [][TraceSteps(~is_dir(fs, input_buffer))]_vars

\* the trace has been walked to its end
C18_Witness ==
    /\ pc = "Done"
    /\ TraceSession
    /\ selected_de_index = 1
    /\ selected_pkg_manager_index = 1
    /\ input_buffer = DerivedDefaultPath
    /\ should_quit

\* one of the arms of the key match of InputPath is taken on k
InputKey(k) ==
    \/ InputChar(k) \/ InputBackspace(k) \/ InputDelete(k) \/ InputLeft(k) \/ InputRight(k)
    \/ InputEnter(k) \/ InputEsc(k) \/ InputOther(k)

\* one of the arms of the key match of SelectDE is taken on k
SelectKey(k) ==
    \/ SelectQuit(k) \/ SelectNext(k) \/ SelectPrevious(k) \/ SelectCyclePkgManager(k)
    \/ SelectEnter(k) \/ SelectOther(k)

\* a key that edits text in InputPath and is bound to nothing in SelectDE
UnboundEditKey(k) ==
    \/ k.code \in {"Backspace", "Delete", "Left", "Right"}
    \/ k.code = "Char" /\ k.ch \notin {"q", "j", "k"} /\ ~(k.ch = "p" /\ k.ctrl)

\* C19: while the process lives, no key in InputPath changes the selected target, the selected
\* package manager, the current profile or the profiles on offer; Down, Up, Tab and Home change
\* nothing at all there; the script that is written names the target and the package manager
\* selected then; in SelectDE the text-editing keys bound to no command change nothing.
C19_KeysOutsideTheirStep ==
    [][ /\ (InInput /\ pc' \in {"Running", "Done"})
              => UNCHANGED <<selected_de_index, selected_pkg_manager_index,
                             current_de_raw, current_de_profile, available_des>>
        /\ InInput
              => \A k \in {e \in KeyEvents : e.code \in {"Down", "Up", "Tab", "Home"}} :
                    InputKey(k) => UNCHANGED vars
        /\ InSelect
              => \A k \in {e \in KeyEvents : UnboundEditKey(e)} :
                    SelectKey(k) => UNCHANGED vars
        /\ written' # written
              => /\ pc = "Done"
                 /\ written'[1].text[4] = <<"# Target DE: ">> \o current_target
                 /\ written'[1].text[5]
                       = <<"# Package Manager: ", current_pkg_manager>>
      ]_vars

\* the path is being edited with a target other than the first selected
C19_Witness ==
    /\ InInput
    /\ selected_de_index > 0
    /\ selected_pkg_manager_index > 0
    /\ keys > 0
    /\ input_buffer # DerivedDefaultPath

\* C20: while the session lives the profiles on offer are not empty, selected_de_index is an
\* index into them and selected_pkg_manager_index an index into the three package managers.
C20_IndicesInRange ==
    pc \in {"Running", "Done", "Cancelled"}
        => /\ Len(available_des) > 0
           /\ selected_de_index \in 0..(Len(available_des) - 1)
           /\ Len(PKG_MANAGER_LIST) = 3
           /\ selected_pkg_manager_index \in 0..2

\* both indices stand on the last entry of their lists, the profiles being the two of the tool
C20_Witness ==
    /\ InSelect
    /\ Len(available_des) = 2
    /\ selected_de_index = 1
    /\ selected_pkg_manager_index = 2

\* C21: the cursor is a byte offset in 0..Len(input_buffer) in every state; Backspace and Left
\* at 0 and Delete and Right at the end change nothing; an insert that succeeds puts the
\* character at the cursor and moves the cursor right by one; whenever the session is in
\* SelectDE the buffer is the default path and the cursor stands at its end.
C21_CursorWithinBuffer ==
    [][ /\ input_cursor_position' \in 0..Len(input_buffer')
        /\ (InInput /\ input_cursor_position = 0)
              => \A k \in {e \in KeyEvents : e.code \in {"Backspace", "Left"}} :
                    (InputBackspace(k) \/ InputLeft(k)) => UNCHANGED vars
        /\ (InInput /\ input_cursor_position = Len(input_buffer))
              => \A k \in {e \in KeyEvents : e.code \in {"Delete", "Right"}} :
                    (InputDelete(k) \/ InputRight(k)) => UNCHANGED vars
        /\ InInput
              => \A k \in {e \in KeyEvents : e.code = "Char"} :
                    (InputChar(k) /\ pc' = "Running")
                        => /\ input_cursor_position' = input_cursor_position + 1
                           /\ input_buffer'
                                 = SubSeq(input_buffer, 1, input_cursor_position)
                                   \o CharBytes(k.ch)
                                   \o SubSeq(input_buffer, input_cursor_position + 1,
                                             Len(input_buffer))
        /\ (pc' = "Running" /\ current_step' = "SelectDE")
              => /\ input_buffer' = DerivedDefaultPath'
                 /\ input_cursor_position' = Len(input_buffer')
      ]_vars

\* a character has been typed at the start of the buffer, the cursor was moved back to 0
C21_Witness ==
    /\ InInput
    /\ keys > 0
    /\ input_cursor_position = 0
    /\ input_buffer # <<>>
    /\ input_buffer[1] = "j"

\* C22: in SelectDE and in Done no error message is attached; a message attached by a failed
\* Enter stays as it is through every edit of the path, and only an Enter or an Esc in
\* InputPath changes it.
C22_ErrorOnlyWhileEnteringPath ==
    [][ /\ (pc' = "Running" /\ current_step' = "SelectDE") => input_error' = <<>>
        /\ pc' = "Done" => input_error' = <<>>
        /\ (InInput /\ pc' = "Running" /\ current_step' = "InputPath"
            /\ <<input_buffer, input_cursor_position>>' # <<input_buffer, input_cursor_position>>)
              => input_error' = input_error
        /\ (pc = "Running" /\ pc' \in {"Running", "Done"} /\ input_error' # input_error)
              => /\ InInput
                 /\ \E k \in {e \in KeyEvents : e.code \in {"Enter", "Esc"}} :
                       InputEnter(k) \/ InputEsc(k)
      ]_vars

\* the message of a failed Enter is still attached after the path has been edited
C22_Witness ==
    /\ InInput
    /\ input_error = <<MsgIsDirectory>>
    /\ keys > 0
    /\ input_buffer # DerivedDefaultPath

====
